---- MODULE Spec2Model ----
(***************************************************************************)
(* Model of src/lib.rs: the symbol resolver `name_from_symbol` with its    *)
(* memo table, and the aggregator `test`, a fold over a batch of tickers   *)
(* followed by one division per network.                                   *)
(*                                                                         *)
(* Three specifications share the definitions:                             *)
(*   SpecResolver  a caller resolving symbols against one memo table;      *)
(*   Spec          `test` on every batch of at most MaxLen tickers;        *)
(*   SpecLong      `test` on batches long enough to exhaust the u16 count. *)
(***************************************************************************)
EXTENDS Integers, Sequences, FiniteSets

VARIABLES
    cache,            \* the caller's memo table handed to name_from_symbol
    calls,            \* log of the most recent name_from_symbol calls (newest last)
    tickers,          \* the argument of `test`, as runs of equal tickers
    rest,             \* what `tickers.into_iter()` has not yet yielded
    symbols_cache,    \* the memo table local to `test`
    res,              \* the fold's accumulator: NetworkName -> <<count, sum>>
    result,           \* the collected return value of `test`, or NoResult
    pc,               \* "idle" | "fold" | "done" | "panicked"
    err,              \* the panic that ended `test`, or "none"
    overflow_checks   \* whether the build checks integer overflow (debug) or wraps (release)

vars == <<cache, calls, tickers, rest, symbols_cache, res, result, pc, err, overflow_checks>>
aggregatorVars == <<tickers, rest, symbols_cache, res, result, pc, err, overflow_checks>>

(***************************************************************************)
(* Bounds of the model.                                                    *)
(***************************************************************************)
MaxLen == 3      \* longest batch of Spec
MaxLog == 2      \* calls kept in the log of SpecResolver
MaxOver == 1     \* SpecLong: tickers of one network beyond the largest u16

(***************************************************************************)
(* Static data.                                                            *)
(***************************************************************************)
NetworkName == {"N1", "N2", "N3"}

TRACK == << <<"S1", "N1">>, <<"S2", "N2">>, <<"s3", "N3">> >>

U16Max == 65535

MantBits == 24

\* Symbols a caller may pass: the three of TRACK, the uppercase of "s3", and two strangers.
Symbols == {"S1", "S2", "s3", "S3", "foo"}

\* Prices a ticker may carry: non-negative integers that f32 represents exactly.
Prices == {1, 3, 16777216}

EmptyMap == [k \in {} |-> "N1"]

NoResult == [none |-> TRUE]

(***************************************************************************)
(* f32 arithmetic on non-negative values: round to nearest, ties to even,  *)
(* with a 24-bit significand.  An accumulator holds an integer value; a    *)
(* quotient is [kind, m, e] with value m * 2^e, 2^23 <= m < 2^24.          *)
(***************************************************************************)
RoundTiesEven(n, d) ==
    LET q == n \div d
        r == n % d
    IN  IF 2 * r < d THEN q
        ELSE IF 2 * r > d THEN q + 1
        ELSE IF q % 2 = 0 THEN q ELSE q + 1

RECURSIVE ExpOf(_, _)
\* least e >= from with x < 2^(MantBits + e)
ExpOf(x, from) == IF x < 2 ^ (MantBits + from) THEN from ELSE ExpOf(x, from + 1)

FRound(x) == LET e == ExpOf(x, 0) IN RoundTiesEven(x, 2 ^ e) * (2 ^ e)

FAdd(a, b) == FRound(a + b)

RECURSIVE UpShift(_, _, _)
\* least k >= from with (n * 2^k) \div d >= 2^(MantBits - 1)
UpShift(n, d, from) ==
    IF (n * (2 ^ from)) \div d >= 2 ^ (MantBits - 1) THEN from ELSE UpShift(n, d, from + 1)

RECURSIVE DownShift(_, _, _)
\* least e >= from with n \div (d * 2^e) < 2^MantBits
DownShift(n, d, from) ==
    IF n \div (d * (2 ^ from)) < 2 ^ MantBits THEN from ELSE DownShift(n, d, from + 1)

Finite(m, e) ==
    IF m = 2 ^ MantBits
    THEN [kind |-> "finite", m |-> 2 ^ (MantBits - 1), e |-> e + 1]
    ELSE [kind |-> "finite", m |-> m, e |-> e]

\* the f32 nearest to n / d, for n > 0 and d > 0
RoundRat(n, d) ==
    IF n \div d >= 2 ^ MantBits
    THEN LET e == DownShift(n, d, 1) IN Finite(RoundTiesEven(n, d * (2 ^ e)), e)
    ELSE LET k == UpShift(n, d, 0) IN Finite(RoundTiesEven(n * (2 ^ k), d), 0 - k)

\* a / b in f32, where b is a count converted by `as f32` (exact for a u16)
FDiv(a, b) ==
    IF b = 0
    THEN IF a = 0 THEN [kind |-> "nan", m |-> 0, e |-> 0]
                  ELSE [kind |-> "inf", m |-> 0, e |-> 0]
    ELSE IF a = 0 THEN [kind |-> "finite", m |-> 0, e |-> 0]
    ELSE IF a % b = 0 THEN RoundRat(a \div b, 1)
    ELSE RoundRat(a, b)

(***************************************************************************)
(* The symbol resolver.                                                    *)
(***************************************************************************)
\* Variant of Insert that drops what the map held.
InsertReplacing(map, key, value) == [k \in {key} |-> value]

Insert(map, key, value) ==
    [k \in DOMAIN map \cup {key} |-> IF k = key THEN value ELSE map[k]]

RECURSIVE FindFrom(_, _)
\* TRACK.iter().find(|(sym, _)| *sym == symbol): index of the first match from i on, 0 if none
FindFrom(symbol, i) ==
    IF i > Len(TRACK) THEN 0
    ELSE IF TRACK[i][1] = symbol THEN i
    ELSE FindFrom(symbol, i + 1)

Find(symbol) == FindFrom(symbol, 1)

\* "S3" and "s3" taken for the same symbol
Canon(symbol) == IF symbol = "S3" THEN "s3" ELSE symbol

\* Variant of name_from_symbol that compares symbols without regard to case.
name_from_symbol_ignorecase(symbol, memo) ==
    IF Canon(symbol) \in DOMAIN memo
    THEN [panic |-> FALSE, ret |-> memo[Canon(symbol)], cache |-> memo, scanned |-> FALSE]
    ELSE LET i == Find(Canon(symbol)) IN
         IF i = 0
         THEN [panic |-> TRUE, ret |-> "UnknownSymbol", cache |-> memo, scanned |-> TRUE]
         ELSE LET filled == Insert(memo, TRACK[i][1], TRACK[i][2]) IN
              [panic |-> FALSE, ret |-> filled[Canon(symbol)], cache |-> filled,
               scanned |-> TRUE]

\* Variant of name_from_symbol that falls back on the first network for an unknown symbol.
name_from_symbol_default(symbol, memo) ==
    IF symbol \in DOMAIN memo
    THEN [panic |-> FALSE, ret |-> memo[symbol], cache |-> memo, scanned |-> FALSE]
    ELSE LET i == Find(symbol)
             filled == IF i = 0 THEN Insert(memo, symbol, TRACK[1][2])
                       ELSE Insert(memo, TRACK[i][1], TRACK[i][2])
         IN  [panic |-> FALSE, ret |-> filled[symbol], cache |-> filled, scanned |-> TRUE]

\* Variant of name_from_symbol that fails on an unknown symbol only after recording it.
name_from_symbol_recording(symbol, memo) ==
    IF symbol \in DOMAIN memo
    THEN [panic |-> FALSE, ret |-> memo[symbol], cache |-> memo, scanned |-> FALSE]
    ELSE LET i == Find(symbol) IN
         IF i = 0
         THEN [panic |-> TRUE, ret |-> "UnknownSymbol",
               cache |-> Insert(memo, symbol, TRACK[1][2]), scanned |-> TRUE]
         ELSE LET filled == Insert(memo, TRACK[i][1], TRACK[i][2]) IN
              [panic |-> FALSE, ret |-> filled[symbol], cache |-> filled, scanned |-> TRUE]

\* Variant of name_from_symbol that never fills the memo table.
name_from_symbol_nocache(symbol, memo) ==
    IF symbol \in DOMAIN memo
    THEN [panic |-> FALSE, ret |-> memo[symbol], cache |-> memo, scanned |-> FALSE]
    ELSE LET i == Find(symbol) IN
         IF i = 0
         THEN [panic |-> TRUE, ret |-> "UnknownSymbol", cache |-> memo, scanned |-> TRUE]
         ELSE [panic |-> FALSE, ret |-> TRACK[i][2], cache |-> memo, scanned |-> TRUE]

\* The outcome of name_from_symbol(symbol, cache): what it returns or that it panics,
\* the memo table it leaves, and whether it scanned TRACK.
name_from_symbol(symbol, memo) ==
    IF symbol \in DOMAIN memo
    THEN [panic |-> FALSE, ret |-> memo[symbol], cache |-> memo, scanned |-> FALSE]
    ELSE LET i == Find(symbol) IN
         IF i = 0
         THEN [panic |-> TRUE, ret |-> "UnknownSymbol", cache |-> memo, scanned |-> TRUE]
         ELSE LET filled == Insert(memo, TRACK[i][1], TRACK[i][2]) IN
              [panic |-> FALSE, ret |-> filled[symbol], cache |-> filled, scanned |-> TRUE]

Append2(log, rec) ==
    IF Len(log) < MaxLog THEN Append(log, rec) ELSE Append(Tail(log), rec)

\* A caller resolves one symbol against its memo table; a panic leaves the table usable.
Resolve ==
    /\ pc = "idle"
    /\ \E symbol \in Symbols :
         LET r == name_from_symbol(symbol, cache) IN
         /\ cache' = r.cache
         /\ calls' = Append2(calls, [symbol |-> symbol, before |-> cache, panic |-> r.panic,
                                     ret |-> r.ret, scanned |-> r.scanned, after |-> r.cache])
    /\ UNCHANGED aggregatorVars

(***************************************************************************)
(* The aggregator.                                                         *)
(***************************************************************************)
Default == <<0, 0>>

\* entry.0 += 1 on a u16 panics when the build checks overflow and the sum does not fit
Overflows(count, checked) == checked /\ count + 1 > U16Max

\* entry.0 += 1 on a u16, otherwise: the sum, wrapped to 16 bits
Increment(count) == (count + 1) % (U16Max + 1)

\* Variant of Accumulate that keeps the sum in a wider type, unrounded.
AccumulateUnrounded(sum, price) == sum + price

\* entry.1 += val.price
Accumulate(sum, price) == FAdd(sum, price)

\* the closure of `.map`: (count, price / count as f32)
Mean(entry) == [count |-> entry[1], mean_price |-> FDiv(entry[2], entry[1])]

\* Variant of Collect that reports every network, the absent ones with a count of 0.
CollectZeroFilled(acc) ==
    [name \in NetworkName |-> IF name \in DOMAIN acc THEN Mean(acc[name]) ELSE Mean(Default)]

\* `.into_iter().map(..).collect()`: one finalized pair per entry of the accumulator
Collect(acc) == [name \in DOMAIN acc |-> Mean(acc[name])]

\* what the iterator yields next, and what is left of it
NextTicker(runs) == [symbol |-> Head(runs).symbol, price |-> Head(runs).price]

Advance(runs) ==
    IF Head(runs).n > 1
    THEN <<[Head(runs) EXCEPT !.n = @ - 1]>> \o Tail(runs)
    ELSE Tail(runs)

\* Variant of FoldClosure that skips a ticker whose symbol is unknown.
FoldClosureSkipping(acc, memo, val, checked) ==
    LET r == name_from_symbol(val.symbol, memo)
        entry == IF r.ret \in DOMAIN acc THEN acc[r.ret] ELSE Default
    IN  IF r.panic
        THEN [panic |-> "none", res |-> acc, cache |-> r.cache]
        ELSE IF Overflows(entry[1], checked)
        THEN [panic |-> "overflow", res |-> Insert(acc, r.ret, entry), cache |-> r.cache]
        ELSE [panic |-> "none", cache |-> r.cache,
              res |-> Insert(acc, r.ret,
                             <<Increment(entry[1]), Accumulate(entry[2], val.price)>>)]

\* The closure of `.fold` applied to the accumulator and one ticker: the accumulator
\* it returns and the memo table it leaves, or the panic that ends it.
FoldClosure(acc, memo, val, checked) ==
    LET r == name_from_symbol(val.symbol, memo)
        entry == IF r.ret \in DOMAIN acc THEN acc[r.ret] ELSE Default
    IN  IF r.panic
        THEN [panic |-> "UnknownSymbol", res |-> acc, cache |-> r.cache]
        ELSE IF Overflows(entry[1], checked)
        THEN [panic |-> "overflow", res |-> Insert(acc, r.ret, entry), cache |-> r.cache]
        ELSE [panic |-> "none", cache |-> r.cache,
              res |-> Insert(acc, r.ret,
                             <<Increment(entry[1]), Accumulate(entry[2], val.price)>>)]

\* One iteration of the fold.
Fold ==
    /\ pc = "fold"
    /\ rest # <<>>
    /\ LET step == FoldClosure(res, symbols_cache, NextTicker(rest), overflow_checks) IN
       /\ rest' = Advance(rest)
       /\ symbols_cache' = step.cache
       /\ res' = step.res
       /\ err' = step.panic
       /\ pc' = IF step.panic = "none" THEN "fold" ELSE "panicked"
    /\ UNCHANGED <<tickers, result, overflow_checks, cache, calls>>

\* The fold is over: `.into_iter().map(..).collect()`.
Finalize ==
    /\ pc = "fold"
    /\ rest = <<>>
    /\ result' = Collect(res)
    /\ pc' = "done"
    /\ UNCHANGED <<tickers, rest, symbols_cache, res, err, overflow_checks, cache, calls>>

(***************************************************************************)
(* Batches.                                                                *)
(***************************************************************************)
Run(n) == [symbol : Symbols, price : Prices, n : {n}]

RECURSIVE SeqsUpTo(_, _)
SeqsUpTo(S, n) ==
    IF n = 0 THEN {<<>>}
    ELSE LET shorter == SeqsUpTo(S, n - 1) IN
         shorter \cup {Append(s, x) : s \in {t \in shorter : Len(t) = n - 1}, x \in S}

ShortBatches == SeqsUpTo(Run(1), MaxLen)

\* Between U16Max and U16Max + MaxOver tickers of one network, then at most one ticker more.
LongBatches ==
    {<<[symbol |-> s, price |-> 1, n |-> U16Max + k]>> \o t :
        s \in {"S1", "s3"}, k \in 0..MaxOver,
        t \in {<<>>, <<[symbol |-> "S2", price |-> 3, n |-> 1]>>,
               <<[symbol |-> "foo", price |-> 1, n |-> 1]>>}}

(***************************************************************************)
(* Specifications.                                                         *)
(***************************************************************************)
InitAggregator(batches) ==
    /\ tickers \in batches
    /\ rest = tickers
    /\ symbols_cache = EmptyMap
    /\ res = EmptyMap
    /\ result = NoResult
    /\ pc = "fold"
    /\ err = "none"
    /\ overflow_checks \in BOOLEAN
    /\ cache = EmptyMap
    /\ calls = <<>>

Init == InitAggregator(ShortBatches)

InitLong == InitAggregator(LongBatches)

InitResolver ==
    /\ cache = EmptyMap
    /\ calls = <<>>
    /\ tickers = <<>>
    /\ rest = <<>>
    /\ symbols_cache = EmptyMap
    /\ res = EmptyMap
    /\ result = NoResult
    /\ pc = "idle"
    /\ err = "none"
    /\ overflow_checks = FALSE

Next == Fold \/ Finalize

NextResolver == Resolve

Spec == Init /\ [][Next]_vars

SpecLong == InitLong /\ [][Next]_vars

SpecResolver == InitResolver /\ [][NextResolver]_vars

(***************************************************************************)
(* What the claims speak of, stated from the table and the batch alone.    *)
(***************************************************************************)
Valid(symbol) == \E i \in 1..Len(TRACK) : TRACK[i][1] = symbol

FirstMatch(symbol) ==
    CHOOSE i \in 1..Len(TRACK) :
        /\ TRACK[i][1] = symbol
        /\ \A j \in 1..(i - 1) : TRACK[j][1] # symbol

TableNetwork(symbol) == TRACK[FirstMatch(symbol)][2]

ResolvesTo(symbol, name) == Valid(symbol) /\ TableNetwork(symbol) = name

RECURSIVE NumIn(_, _)
\* how many tickers of the runs resolve to the network
NumIn(runs, name) ==
    IF runs = <<>> THEN 0
    ELSE (IF ResolvesTo(Head(runs).symbol, name) THEN Head(runs).n ELSE 0)
         + NumIn(Tail(runs), name)

NumOf(name) == NumIn(tickers, name)

RECURSIVE Copies(_, _)
Copies(x, n) == IF n = 0 THEN <<>> ELSE <<x>> \o Copies(x, n - 1)

RECURSIVE PricesIn(_, _)
\* the prices of the tickers that resolve to the network, in input order
PricesIn(runs, name) ==
    IF runs = <<>> THEN <<>>
    ELSE (IF ResolvesTo(Head(runs).symbol, name)
          THEN Copies(Head(runs).price, Head(runs).n) ELSE <<>>)
         \o PricesIn(Tail(runs), name)

PricesOf(name) == PricesIn(tickers, name)

RECURSIVE SumInOrder(_)
\* ((0 + p1) + p2) + ... in f32
SumInOrder(prices) ==
    IF prices = <<>> THEN 0
    ELSE FAdd(SumInOrder(SubSeq(prices, 1, Len(prices) - 1)), prices[Len(prices)])

Reverse(seq) == [i \in 1..Len(seq) |-> seq[Len(seq) + 1 - i]]

AllValid == \A i \in 1..Len(tickers) : Valid(tickers[i].symbol)

\* the i-th run of the batch has been yielded, wholly or in part
Yielded(i) ==
    LET done == Len(tickers) - Len(rest) IN
    \/ i <= done
    \/ /\ i = done + 1
       /\ rest # <<>>
       /\ rest[1].n < tickers[i].n

InTable(symbol, name) == \E i \in 1..Len(TRACK) : TRACK[i] = <<symbol, name>>

(***************************************************************************)
(* C1: the count returned for each network present equals the number of    *)
(* tickers of the batch that resolve to that network, for batches of any   *)
(* length.  The u16 counter breaks it at 65536 tickers of one network.     *)
(***************************************************************************)
C1_CountEqualsNumber ==
    (pc = "done" /\ AllValid) =>
        \A name \in DOMAIN result : result[name].count = NumOf(name)

(***************************************************************************)
(* C2: the keys of the result are exactly the networks to which at least   *)
(* one ticker resolves; the empty batch yields the empty mapping.          *)
(***************************************************************************)
C2_KeysArePresentNetworks ==
    pc = "done" =>
        /\ DOMAIN result = {name \in NetworkName : NumOf(name) > 0}
        /\ (tickers = <<>> => result = EmptyMap)

C2_Witness ==
    /\ pc = "done"
    /\ tickers # <<>>
    /\ DOMAIN result # {}
    /\ DOMAIN result # NetworkName

(***************************************************************************)
(* C3: a batch with an unknown symbol at any position makes `test` fail    *)
(* with UnknownSymbol as soon as that ticker is reached, and no result     *)
(* mapping, partial or whole, is ever returned for it.                     *)
(***************************************************************************)
C3_UnknownSymbolAborts ==
    /\ (\E i \in 1..Len(tickers) : Yielded(i) /\ ~Valid(tickers[i].symbol)) =>
           (pc = "panicked" /\ err = "UnknownSymbol")
    /\ pc = "done" => rest = <<>>
    /\ ~AllValid => result = NoResult
    /\ pc = "panicked" => result = NoResult

C3_Witness ==
    /\ pc = "panicked"
    /\ err = "UnknownSymbol"
    /\ Len(tickers) = 3
    /\ Valid(tickers[1].symbol)
    /\ ~Valid(tickers[2].symbol)
    /\ res # EmptyMap
    /\ rest # <<>>
    /\ result = NoResult

(***************************************************************************)
(* C4: whatever calls came before, name_from_symbol returns the network of *)
(* the first TRACK entry whose symbol equals the argument exactly, and     *)
(* fails when there is none: the same outcome as with a fresh memo table.  *)
(***************************************************************************)
C4_ResolveIsTableLookup ==
    \A i \in 1..Len(calls) :
        LET c == calls[i]
            fresh == name_from_symbol(c.symbol, EmptyMap)
        IN  /\ c.panic = ~Valid(c.symbol)
            /\ ~c.panic => c.ret = TableNetwork(c.symbol)
            /\ c.panic = fresh.panic
            /\ c.ret = fresh.ret
            /\ c.symbol = "S1" => c.ret = "N1"
            /\ c.symbol = "S2" => c.ret = "N2"
            /\ c.symbol = "s3" => c.ret = "N3"
            /\ c.symbol = "S3" => c.panic

C4_Witness ==
    /\ Len(calls) = 2
    /\ calls[1].symbol = "S3"
    /\ calls[1].panic
    /\ calls[2].symbol = "s3"
    /\ calls[2].ret = "N3"
    /\ ~calls[2].scanned
    /\ DOMAIN calls[2].before = {"S1", "S2", "s3"}

(***************************************************************************)
(* C5: every entry of the memo table is a pair of TRACK.                   *)
(***************************************************************************)
C5_MemoWithinTable ==
    /\ \A symbol \in DOMAIN cache : InTable(symbol, cache[symbol])
    /\ \A symbol \in DOMAIN symbols_cache : InTable(symbol, symbols_cache[symbol])

C5_Witness ==
    /\ DOMAIN cache = {"S1", "S2", "s3"}
    /\ Len(calls) > 0
    /\ calls[Len(calls)].panic

(***************************************************************************)
(* C6: two consecutive calls with the same valid symbol return the same    *)
(* network, and the second one does not scan TRACK.                        *)
(***************************************************************************)
C6_ResolveIdempotent ==
    \A i \in 1..(Len(calls) - 1) :
        (calls[i].symbol = calls[i + 1].symbol /\ Valid(calls[i].symbol)) =>
            /\ ~calls[i].panic
            /\ ~calls[i + 1].panic
            /\ calls[i + 1].ret = calls[i].ret
            /\ ~calls[i + 1].scanned

C6_Witness ==
    /\ Len(calls) >= 2
    /\ calls[1].symbol = calls[2].symbol
    /\ Valid(calls[1].symbol)
    /\ calls[1].scanned
    /\ ~calls[2].scanned
    /\ calls[2].ret = calls[1].ret

(***************************************************************************)
(* C7: for a symbol that matches no TRACK entry name_from_symbol fails,    *)
(* returns no network, and leaves the memo table as it was.                *)
(***************************************************************************)
C7_UnknownSymbolFails ==
    /\ \A i \in 1..Len(calls) :
           ~Valid(calls[i].symbol) =>
               /\ calls[i].panic
               /\ calls[i].ret \notin NetworkName
               /\ calls[i].after = calls[i].before
    /\ (calls # <<>>) => cache = calls[Len(calls)].after

C7_Witness ==
    /\ calls # <<>>
    /\ calls[Len(calls)].symbol = "foo"
    /\ calls[Len(calls)].panic
    /\ calls[Len(calls)].before # EmptyMap
    /\ cache = calls[Len(calls)].before

(***************************************************************************)
(* C8: when the fold is over every entry of the accumulator has a count of *)
(* at least 1, so no mean is a division by zero, for batches of any        *)
(* length.  The wrapped u16 counter breaks it at 65536 tickers.            *)
(***************************************************************************)
C8_CountAtLeastOne ==
    /\ (pc = "fold" /\ rest = <<>>) => \A name \in DOMAIN res : res[name][1] >= 1
    /\ pc = "done" => \A name \in DOMAIN result : result[name].mean_price.kind = "finite"

(***************************************************************************)
(* C9: the mean returned for a network is the f32 sum of its tickers'      *)
(* prices, added in input order from zero, divided once by its count.      *)
(***************************************************************************)
C9_MeanIsSumThenDivide ==
    pc = "done" =>
        \A name \in DOMAIN result :
            result[name].mean_price
                = FDiv(SumInOrder(PricesOf(name)), result[name].count)

C9_Witness ==
    /\ pc = "done"
    /\ \E name \in DOMAIN result :
           /\ Len(PricesOf(name)) = 3
           /\ SumInOrder(PricesOf(name)) # SumInOrder(Reverse(PricesOf(name)))
           /\ SumInOrder(PricesOf(name)) # PricesOf(name)[1] + PricesOf(name)[2] + PricesOf(name)[3]

(***************************************************************************)
(* C10: a successful name_from_symbol leaves the memo table unchanged on a *)
(* hit; on a miss it adds the entry of the resolved symbol and nothing     *)
(* else, every earlier entry keeping its value.                            *)
(***************************************************************************)
C10_MemoFrame ==
    \A i \in 1..Len(calls) :
        LET c == calls[i] IN
        ~c.panic =>
            /\ c.symbol \in DOMAIN c.before => (~c.scanned /\ c.after = c.before)
            /\ c.symbol \notin DOMAIN c.before =>
                   /\ c.scanned
                   /\ DOMAIN c.after = DOMAIN c.before \cup {c.symbol}
                   /\ c.after[c.symbol] = c.ret
            /\ \A k \in DOMAIN c.before : k \in DOMAIN c.after /\ c.after[k] = c.before[k]

C10_Witness ==
    /\ Len(calls) = 2
    /\ ~calls[1].panic
    /\ ~calls[2].panic
    /\ calls[1].symbol # calls[2].symbol
    /\ calls[2].symbol \notin DOMAIN calls[2].before
    /\ calls[2].before # EmptyMap
    /\ DOMAIN cache = DOMAIN calls[2].before \cup {calls[2].symbol}

====
